---- MODULE Spec2Model ----
\* Model of the model-serving pool and router:
\*   src/src/model/model_pool.py   (ModelInstance, ModelPool, ModelContextManager)
\*   src/src/model/model_router.py (ModelRouter)
\* and of the startup that makes, initializes and registers the pools, with its
\* fallback to a single shared handle (spec.md 4.5, src/tests/api/test_lifespan.py).
\* The free-list is a queue.Queue: its get/put are modelled at the granularity of
\* the queue mutex (one action per critical section), with the not_empty
\* condition's waiter list.
EXTENDS Integers, Sequences, FiniteSets, TLC

\* ---------------------------------------------------------------- bounds
MaxPools == 2
MaxPoolSize == 2
NumCallers == 3
NumScoped == 2
MaxUsage == 2
NumThreads == 2
MaxAvgSize == 8
MaxAvgTotal == 8
MaxExtra == 1

\* ---------------------------------------------------------------- values
None == "None"
NoPool == 0
NoCaller == 0
NoSlot == -1
NoHandle == -1
BaseHandle == 0
NoAverage == -1

PoolIds == 1..MaxPools
Callers == 1..NumCallers
Sizes == 1..MaxPoolSize
Slots == 0..(MaxPoolSize - 1)
ModelType == {"sklearn", "onnx"}
Scoped == 1..NumScoped
Kinds == {"sync", "async", "cm"}
Threads == 1..NumThreads

\* settings.MODEL_PATH and the files the paths name
SettingsModelPath == "model.pkl"
PicklePaths == {"model.pkl", "missing.pkl", "corrupt.pkl"}
PreloadedPaths == {"model.onnx"}

VARIABLES
    cls_instance,     \* ModelPool._instance (NoPool = None)
    made,             \* [backend -> object the startup's ModelPool() call returned]
    pool_size,        \* [pool -> self._pool_size]
    pool,             \* [pool -> items of self._pool, head first]
    waiters,          \* [pool -> self._pool.not_empty._waiters, head first]
    model_instances,  \* [pool -> self._model_instances]
    model_path,       \* [pool -> self._model_path]
    model,            \* [pool -> [slot -> ModelInstance.model]]
    usage_count,      \* [pool -> [slot -> ModelInstance.usage_count]]
    lock,             \* [pool -> [slot -> owner of ModelInstance.lock]]
    init_result,      \* [pool -> how the last initialize call ended: the error raised,
                      \*  or which of its two closing messages it printed]
    router_pools,     \* ModelRouter._pools
    default_type,     \* ModelRouter._default_type
    pc,               \* [caller -> position]
    kind,             \* [caller -> operation in progress: acquire (sync), acquire_async
                      \*  (async), a ModelContextManager scope (cm), or none]
    cpool,            \* [caller -> pool of the call (ModelContextManager.pool)]
    expired,          \* [caller -> the call's deadline has passed]
    held,             \* [caller -> instance obtained (ModelContextManager.instance)]
    pending,          \* [caller -> error raised inside the caller's block]
    result,           \* [caller -> how the caller's last operation ended]
    wait_order,       \* callers with a get in progress that has waited, oldest first
    orchestration,    \* [backend -> state of the startup's fallback policy]
    returned,         \* [pool -> [slot -> predict / predict_proba calls that returned]]
    shutdown_log,     \* how the last ModelRouter.shutdown call ended, and the
                      \*  backends whose pool it asked for get_stats
    stats_log,        \* how the last ModelRouter.get_stats call ended, and the
                      \*  backends it reported a snapshot / an error entry for
    avg_call,         \* a get_stats call on a pool of avg_call.size instances whose
                      \*  usage counts sum to avg_call.total, and the average reported
    init_thread,      \* [thread -> position, arguments and loop index of its
                      \*  initialize call]
    cancelled,        \* [caller -> the task awaiting the call was cancelled]
    cm_instance       \* instance field of a ModelContextManager object that
                      \*  several entries share

poolVars == <<cls_instance, made, pool_size, pool, waiters, model_instances, model_path,
              model, usage_count, lock, init_result>>
routerVars == <<router_pools, default_type>>
callerVars == <<pc, kind, cpool, expired, held, pending, result, wait_order>>
extVars == <<stats_log, avg_call, init_thread, cancelled, cm_instance>>
auxVars == <<orchestration, returned, shutdown_log, extVars>>
vars == <<poolVars, routerVars, callerVars, auxVars>>

\* ---------------------------------------------------------------- helpers
Range(s) == {s[k] : k \in 1..Len(s)}

RECURSIVE Without(_, _)
Without(s, x) ==
    IF s = <<>> THEN <<>>
    ELSE IF Head(s) = x THEN Without(Tail(s), x)
    ELSE <<Head(s)>> \o Without(Tail(s), x)

RECURSIVE SumUsage(_, _)
SumUsage(u, s) ==
    IF s = <<>> THEN 0 ELSE u[Head(s)] + SumUsage(u, Tail(s))

\* range(pool_size) as the list of instance ids
RECURSIVE RangeSeq(_)
RangeSeq(n) == IF n <= 0 THEN <<>> ELSE Append(RangeSeq(n - 1), n - 1)

\* Path.exists() and pickle.load() on the files of the model
PathExists(path) == path # "missing.pkl"
PickleLoads(path) == path = "model.pkl"

\* model_path argument resolved against settings.MODEL_PATH
ResolvePath(path_arg) == IF path_arg = None THEN SettingsModelPath ELSE path_arg

\* pickle.loads(pickle.dumps(base_model)) for slot i: a fresh private handle
ModelCopyOnce(i) == 1
ModelCopy(i) == i + 1

\* the guard of initialize
AlreadyInitializedNever(p) == FALSE
AlreadyInitialized(p) == pool_size[p] > 0

\* except Empty: raise TimeoutError, in acquire and acquire_async
AcquireTimeoutUntranslated == "Empty"
AcquireTimeout == "TimeoutError"

\* Queue._put / Queue._get / Queue._qsize on the deque
QPutTwice(q, item) == Append(Append(q, item), item)
QPut(q, item) == Append(q, item)
QPopPeek(q) == q
QPop(q) == Tail(q)
QSize(q) == Len(q)

\* the callers that have an instance of pool p
Holders(p) == {c \in Callers : cpool[c] = p /\ held[c] # NoSlot}
HeldCount(p) == Cardinality(Holders(p))

\* ModelPool.is_initialized
is_initialized(p) == pool_size[p] > 0

\* ModelPool.get_stats (the counters; the average is not part of this record)
get_stats(p) ==
    LET available == QSize(pool[p])
        in_use == pool_size[p] - available
    IN  [pool_size |-> pool_size[p],
         available |-> available,
         in_use |-> in_use,
         total_predictions |-> SumUsage(usage_count[p], model_instances[p]),
         model_path |-> model_path[p]]

\* ModelRouter.get_pool
get_poolDefaultFallback(model_type) ==
    IF model_type # None /\ router_pools[model_type] # NoPool
    THEN router_pools[model_type]
    ELSE router_pools[default_type]
get_pool(model_type) ==
    LET t == IF model_type = None THEN default_type ELSE model_type
    IN  router_pools[t]

\* ModelRouter.is_available
is_available(model_type) == router_pools[model_type] # NoPool

\* ---------------------------------------------------------------- initial state
InitState ==
    /\ cls_instance = NoPool
    /\ made = [t \in ModelType |-> NoPool]
    /\ pool_size = [p \in PoolIds |-> 0]
    /\ pool = [p \in PoolIds |-> <<>>]
    /\ waiters = [p \in PoolIds |-> <<>>]
    /\ model_instances = [p \in PoolIds |-> <<>>]
    /\ model_path = [p \in PoolIds |-> None]
    /\ model = [p \in PoolIds |-> [i \in Slots |-> NoHandle]]
    /\ usage_count = [p \in PoolIds |-> [i \in Slots |-> 0]]
    /\ lock = [p \in PoolIds |-> [i \in Slots |-> NoCaller]]
    /\ init_result = [p \in PoolIds |-> "none"]
    /\ router_pools = [t \in ModelType |-> NoPool]
    /\ default_type = "sklearn"
    /\ pc = [c \in Callers |-> "idle"]
    /\ kind = [c \in Callers |-> "none"]
    /\ cpool = [c \in Callers |-> NoPool]
    /\ expired = [c \in Callers |-> FALSE]
    /\ held = [c \in Callers |-> NoSlot]
    /\ pending = [c \in Callers |-> "none"]
    /\ result = [c \in Callers |-> "none"]
    /\ wait_order = <<>>
    /\ orchestration = [t \in ModelType |-> "Uninitialized"]
    /\ returned = [p \in PoolIds |-> [i \in Slots |-> 0]]
    /\ shutdown_log = [ended |-> "none", stats |-> {}, errors |-> {}]
    /\ stats_log = [ended |-> "none", default_type |-> None, pools |-> {},
                    errors |-> {}]
    /\ init_thread = [th \in Threads |-> [pc |-> "idle", size |-> 0, i |-> 0]]
    /\ cancelled = [c \in Callers |-> FALSE]
    /\ cm_instance = NoSlot

\* no get_stats call on record
Init ==
    /\ InitState
    /\ avg_call = [size |-> 1, total |-> 0, avg |-> NoAverage]

\* ---------------------------------------------------------------- ModelPool
\* ModelPool.__new__: the class-level instance, created on the first call only
New ==
    IF cls_instance = NoPool THEN 1 ELSE cls_instance

\* pool = ModelPool() in the startup of backend t. __init__ sets the fields of a
\* new object and returns early on the existing one.
Construct(t) ==
    /\ made[t] = NoPool
    /\ made' = [made EXCEPT ![t] = New]
    /\ cls_instance' = New
    /\ UNCHANGED <<pool_size, pool, waiters, model_instances, model_path, model,
                   usage_count, lock, init_result>>
    /\ UNCHANGED <<routerVars, callerVars, auxVars>>

\* the population loop of initialize: one ModelInstance per slot, a private copy
\* where the round trip succeeds, the base handle where it raises
Populate(p, size, copies) ==
    /\ model_instances' = [model_instances EXCEPT ![p] = @ \o RangeSeq(size)]
    /\ pool' = [pool EXCEPT ![p] = @ \o RangeSeq(size)]
    /\ model' = [model EXCEPT ![p] =
                    [i \in Slots |-> IF i < size
                                     THEN (IF copies[i] THEN ModelCopy(i) ELSE BaseHandle)
                                     ELSE @[i]]]
    /\ usage_count' = [usage_count EXCEPT ![p] =
                          [i \in Slots |-> IF i < size THEN 0 ELSE @[i]]]
    /\ lock' = [lock EXCEPT ![p] =
                   [i \in Slots |-> IF i < size THEN NoCaller ELSE @[i]]]

\* ModelPool.initialize on pool p: what the call does to the pool
InitializeCall(p, size, path_arg, preloaded, copies) ==
    /\ IF AlreadyInitialized(p)
       THEN /\ init_result' = [init_result EXCEPT ![p] = "already"]
            /\ UNCHANGED <<pool_size, pool, model_instances, model_path, model,
                           usage_count, lock>>
       ELSE /\ pool_size' = [pool_size EXCEPT ![p] = size]
            /\ IF ~preloaded
               THEN LET path == ResolvePath(path_arg) IN
                    /\ model_path' = [model_path EXCEPT ![p] = path]
                    /\ IF ~PathExists(path)
                       THEN /\ init_result' =
                                 [init_result EXCEPT ![p] = "FileNotFoundError"]
                            /\ UNCHANGED <<pool, model_instances, model,
                                           usage_count, lock>>
                       ELSE IF ~PickleLoads(path)
                       THEN /\ init_result' = [init_result EXCEPT ![p] = "Exception"]
                            /\ UNCHANGED <<pool, model_instances, model,
                                           usage_count, lock>>
                       ELSE /\ init_result' = [init_result EXCEPT ![p] = "initialized"]
                            /\ Populate(p, size, copies)
               ELSE /\ model_path' = [model_path EXCEPT ![p] =
                                         IF path_arg # None THEN path_arg ELSE @]
                    /\ init_result' = [init_result EXCEPT ![p] = "initialized"]
                    /\ Populate(p, size, copies)
    /\ UNCHANGED <<cls_instance, made, waiters>>

Initialize(p, size, path_arg, preloaded, copies) ==
    /\ p = cls_instance
    /\ InitializeCall(p, size, path_arg, preloaded, copies)
    /\ UNCHANGED <<routerVars, callerVars, auxVars>>

InitializeFromPath ==
    \E p \in PoolIds, size \in Sizes, path_arg \in PicklePaths \cup {None} :
        \E copies \in [0..(size - 1) -> BOOLEAN] :
            Initialize(p, size, path_arg, FALSE, copies)

InitializePreloaded ==
    \E p \in PoolIds, size \in Sizes, path_arg \in PreloadedPaths \cup {None} :
        \E copies \in [0..(size - 1) -> BOOLEAN] :
            Initialize(p, size, path_arg, TRUE, copies)


\* ---------------------------------------------------------------- queue.Queue
\* the block argument of Queue.get: self._pool.get(timeout=timeout) in acquire,
\* run_in_executor(None, self._pool.get, True, timeout) in acquire_async
GetBlockAcquireOnly(k) == k = "sync"
GetBlock(k) == TRUE

\* One pass of the loop of Queue.get(block=True, timeout) under the queue mutex,
\* for the call of caller c (operation k on pool p) whose deadline state is exp:
\* take the head item if there is one, else raise Empty if the deadline has
\* passed, else wait on not_empty. A thread back from Condition.wait first leaves
\* the waiter list. acquire returns the item or raises TimeoutError at once; for
\* acquire_async the executor's future holds the outcome until the task resumes.
GetPass(c, p, k, exp) ==
    LET w == Without(waiters[p], c) IN
    IF QSize(pool[p]) > 0
    THEN /\ pool' = [pool EXCEPT ![p] = QPop(@)]
         /\ waiters' = [waiters EXCEPT ![p] = w]
         /\ held' = [held EXCEPT ![c] = Head(pool[p])]
         /\ pc' = [pc EXCEPT ![c] = IF k = "sync" THEN "holding" ELSE "futdone"]
         /\ kind' = [kind EXCEPT ![c] = IF k = "sync" THEN "none" ELSE k]
         /\ cpool' = [cpool EXCEPT ![c] = p]
         /\ result' = [result EXCEPT ![c] = IF k = "sync" THEN "instance" ELSE "none"]
         /\ expired' = [expired EXCEPT ![c] = FALSE]
         /\ wait_order' = Without(wait_order, c)
    ELSE IF exp \/ ~GetBlock(k)
    THEN /\ waiters' = [waiters EXCEPT ![p] = w]
         /\ held' = [held EXCEPT ![c] = NoSlot]
         /\ pc' = [pc EXCEPT ![c] = IF k = "sync" THEN "idle" ELSE "futdone"]
         /\ kind' = [kind EXCEPT ![c] = IF k = "sync" THEN "none" ELSE k]
         /\ cpool' = [cpool EXCEPT ![c] = IF k = "sync" THEN NoPool ELSE p]
         /\ result' = [result EXCEPT ![c] = IF k = "sync" THEN AcquireTimeout ELSE "none"]
         /\ expired' = [expired EXCEPT ![c] = FALSE]
         /\ wait_order' = Without(wait_order, c)
         /\ UNCHANGED pool
    ELSE /\ waiters' = [waiters EXCEPT ![p] = Append(w, c)]
         /\ held' = [held EXCEPT ![c] = NoSlot]
         /\ pc' = [pc EXCEPT ![c] = "wait"]
         /\ kind' = [kind EXCEPT ![c] = k]
         /\ cpool' = [cpool EXCEPT ![c] = p]
         /\ result' = [result EXCEPT ![c] = "none"]
         /\ expired' = [expired EXCEPT ![c] = FALSE]
         /\ wait_order' = IF c \in Range(wait_order) THEN wait_order
                          ELSE Append(wait_order, c)
         /\ UNCHANGED pool

\* ModelPool.acquire / ModelPool.acquire_async on pool p: the initialization
\* check, then the first pass of Queue.get (in the calling thread, or in the
\* executor thread for acquire_async). timeout0: the timeout given is zero.
AcquireOn(c, p, k, timeout0) ==
    /\ IF pool_size[p] = 0
       THEN /\ result' = [result EXCEPT ![c] = "RuntimeError"]
            /\ UNCHANGED <<pool, waiters, pc, kind, cpool, held, expired, wait_order>>
       ELSE GetPass(c, p, k, timeout0)
    /\ UNCHANGED pending
    /\ UNCHANGED <<cls_instance, made, pool_size, model_instances, model_path,
                   model, usage_count, lock, init_result>>
    /\ UNCHANGED <<routerVars, auxVars>>

\* a caller that has the pool object: pool.acquire(timeout),
\* await pool.acquire_async(timeout) or async with ModelContextManager(pool, timeout)
Acquire(c, k, timeout0) ==
    /\ pc[c] = "idle"
    /\ cls_instance # NoPool
    /\ AcquireOn(c, cls_instance, k, timeout0)

\* async with model_router.acquire_model(model_type, timeout)
AcquireModel(c, model_type, timeout0) ==
    /\ pc[c] = "idle"
    /\ IF get_pool(model_type) = NoPool
       THEN /\ result' = [result EXCEPT ![c] = "ValueError"]
            /\ UNCHANGED <<pc, kind, cpool, held, pending, expired, wait_order>>
            /\ UNCHANGED <<poolVars, routerVars, auxVars>>
       ELSE AcquireOn(c, get_pool(model_type), "cm", timeout0)

\* Condition.wait(remaining) returns on its timeout: the deadline has passed; the
\* thread is still in the waiter list until it has the mutex again
WaitTimeout(c) ==
    /\ pc[c] = "wait"
    /\ pc' = [pc EXCEPT ![c] = "woken"]
    /\ expired' = [expired EXCEPT ![c] = TRUE]
    /\ UNCHANGED <<kind, cpool, held, pending, result, wait_order>>
    /\ UNCHANGED <<poolVars, routerVars, auxVars>>

\* the deadline passes while a notified thread has not yet re-taken the mutex
Expire(c) ==
    /\ pc[c] = "woken"
    /\ ~expired[c]
    /\ expired' = [expired EXCEPT ![c] = TRUE]
    /\ UNCHANGED <<pc, kind, cpool, held, pending, result, wait_order>>
    /\ UNCHANGED <<poolVars, routerVars, auxVars>>

\* back from Condition.wait with the mutex: the next pass of the loop
Recheck(c) ==
    /\ pc[c] = "woken"
    /\ GetPass(c, cpool[c], kind[c], expired[c])
    /\ UNCHANGED pending
    /\ UNCHANGED <<cls_instance, made, pool_size, model_instances, model_path,
                   model, usage_count, lock, init_result>>
    /\ UNCHANGED <<routerVars, auxVars>>

\* the awaiting task resumes with the executor's result: the instance (stored in
\* ModelContextManager.instance by __aenter__), or Empty turned into TimeoutError;
\* __aexit__ does not run when __aenter__ raised
Resume(c) ==
    /\ pc[c] = "futdone"
    /\ ~cancelled[c]
    /\ IF held[c] # NoSlot
       THEN /\ pc' = [pc EXCEPT ![c] = "holding"]
            /\ result' = [result EXCEPT ![c] = "instance"]
            /\ kind' = [kind EXCEPT ![c] = IF @ = "cm" THEN "cm" ELSE "none"]
            /\ UNCHANGED cpool
       ELSE /\ pc' = [pc EXCEPT ![c] = "idle"]
            /\ result' = [result EXCEPT ![c] = AcquireTimeout]
            /\ kind' = [kind EXCEPT ![c] = "none"]
            /\ cpool' = [cpool EXCEPT ![c] = NoPool]
    /\ UNCHANGED <<expired, held, pending, wait_order>>
    /\ UNCHANGED <<poolVars, routerVars, auxVars>>

\* Queue.put under the mutex: append, then not_empty.notify() takes the oldest
\* entry off the waiter list and wakes it
PutWaiters(p) == IF waiters[p] = <<>> THEN <<>> ELSE Tail(waiters[p])
PutWoken(p) == IF waiters[p] = <<>> THEN NoCaller ELSE Head(waiters[p])

\* ModelPool.release(instance) by caller c, which then is done with the instance
ReleaseBy(c) ==
    LET p == cpool[c] IN
    /\ pool' = [pool EXCEPT ![p] = QPut(@, held[c])]
    /\ waiters' = [waiters EXCEPT ![p] = PutWaiters(p)]
    /\ pc' = [x \in Callers |->
                IF x = c THEN "idle"
                ELSE IF x = PutWoken(p) /\ pc[x] = "wait" THEN "woken"
                ELSE pc[x]]
    /\ held' = [held EXCEPT ![c] = NoSlot]

\* the caller of acquire / acquire_async releases in its finally clause
Release(c) ==
    /\ pc[c] = "holding"
    /\ kind[c] # "cm"
    /\ ReleaseBy(c)
    /\ result' = [result EXCEPT ![c] = IF pending[c] = "none" THEN "ok" ELSE pending[c]]
    /\ pending' = [pending EXCEPT ![c] = "none"]
    /\ cpool' = [cpool EXCEPT ![c] = NoPool]
    /\ UNCHANGED <<kind, expired, wait_order>>
    /\ UNCHANGED <<cls_instance, made, pool_size, model_instances, model_path,
                   model, usage_count, lock, init_result>>
    /\ UNCHANGED <<routerVars, auxVars>>

\* pool.release(instance) by caller c with an instance i of pool p that no caller
\* has acquired at the time (a second release of an instance, or a reference
\* kept after the release): release puts whatever it is given
ReleaseNotHeld(c, p, i) ==
    /\ pc[c] = "idle"
    /\ p = cls_instance
    /\ i \in Range(model_instances[p])
    /\ \A x \in Holders(p) : held[x] # i
    /\ Len(pool[p]) < pool_size[p] + MaxExtra
    /\ pool' = [pool EXCEPT ![p] = QPut(@, i)]
    /\ waiters' = [waiters EXCEPT ![p] = PutWaiters(p)]
    /\ pc' = [x \in Callers |->
                IF x = PutWoken(p) /\ pc[x] = "wait" THEN "woken" ELSE pc[x]]
    /\ UNCHANGED <<kind, cpool, expired, held, pending, result, wait_order>>
    /\ UNCHANGED <<cls_instance, made, pool_size, model_instances, model_path,
                   model, usage_count, lock, init_result>>
    /\ UNCHANGED <<routerVars, auxVars>>

\* the task awaiting acquire_async (directly, or inside __aenter__) is cancelled
\* while the pool is exhausted and the executor thread is blocked in Queue.get:
\* CancelledError ends the await, the thread goes on with its get
Cancel(c) ==
    /\ pc[c] \in {"wait", "woken"}
    /\ QSize(pool[cpool[c]]) = 0
    /\ kind[c] \in {"async", "cm"}
    /\ ~cancelled[c]
    /\ cancelled' = [cancelled EXCEPT ![c] = TRUE]
    /\ UNCHANGED <<orchestration, returned, shutdown_log, stats_log, avg_call,
                   init_thread, cm_instance>>
    /\ UNCHANGED <<poolVars, routerVars, callerVars>>

\* the executor thread of a cancelled task ends its get: nobody awaits the
\* future, so the instance it holds (if any) reaches no caller and no release;
\* __aexit__ does not run for an __aenter__ that was cancelled
Discard(c) ==
    /\ pc[c] = "futdone"
    /\ cancelled[c]
    /\ cancelled' = [cancelled EXCEPT ![c] = FALSE]
    /\ pc' = [pc EXCEPT ![c] = "idle"]
    /\ held' = [held EXCEPT ![c] = NoSlot]
    /\ result' = [result EXCEPT ![c] = "CancelledError"]
    /\ kind' = [kind EXCEPT ![c] = "none"]
    /\ cpool' = [cpool EXCEPT ![c] = NoPool]
    /\ UNCHANGED <<expired, pending, wait_order>>
    /\ UNCHANGED <<orchestration, returned, shutdown_log, stats_log, avg_call,
                   init_thread, cm_instance>>
    /\ UNCHANGED <<poolVars, routerVars>>

\* ModelContextManager.__aexit__ returns False: the error of the block goes on
AExitReturnTrue == TRUE
AExitReturn == FALSE

\* ModelContextManager.__aexit__: release when an instance is stored
AExit(c) ==
    /\ pc[c] = "holding"
    /\ kind[c] = "cm"
    /\ IF held[c] # NoSlot
       THEN ReleaseBy(c)
       ELSE /\ pc' = [pc EXCEPT ![c] = "idle"]
            /\ UNCHANGED <<pool, waiters, held>>
    /\ result' = [result EXCEPT ![c] =
                     IF pending[c] = "none" \/ AExitReturn THEN "ok" ELSE pending[c]]
    /\ pending' = [pending EXCEPT ![c] = "none"]
    /\ kind' = [kind EXCEPT ![c] = "none"]
    /\ cpool' = [cpool EXCEPT ![c] = NoPool]
    /\ UNCHANGED <<expired, wait_order>>
    /\ UNCHANGED <<cls_instance, made, pool_size, model_instances, model_path,
                   model, usage_count, lock, init_result>>
    /\ UNCHANGED <<routerVars, auxVars>>

\* ---------------------------------------------------------------- a shared scope object
\* One ModelContextManager object over the pool, entered by several callers:
\* cm_instance is its instance field, held[c] the instance __aenter__ returned
\* to caller c. __aenter__ of the shared object resumes with the executor's
\* result: self.instance = await self.pool.acquire_async(self.timeout)
ResumeShared(c) ==
    /\ pc[c] = "futdone"
    /\ kind[c] = "cm"
    /\ IF held[c] # NoSlot
       THEN /\ pc' = [pc EXCEPT ![c] = "holding"]
            /\ result' = [result EXCEPT ![c] = "instance"]
            /\ cm_instance' = held[c]
            /\ UNCHANGED <<kind, cpool>>
       ELSE /\ pc' = [pc EXCEPT ![c] = "idle"]
            /\ result' = [result EXCEPT ![c] = AcquireTimeout]
            /\ kind' = [kind EXCEPT ![c] = "none"]
            /\ cpool' = [cpool EXCEPT ![c] = NoPool]
            /\ UNCHANGED cm_instance
    /\ UNCHANGED <<expired, held, pending, wait_order>>
    /\ UNCHANGED <<orchestration, returned, shutdown_log, stats_log, avg_call,
                   init_thread, cancelled>>
    /\ UNCHANGED <<poolVars, routerVars>>

\* __aexit__ of the shared object at the end of caller c's block:
\* if self.instance is not None: self.pool.release(self.instance); the field
\* keeps its value
AExitShared(c) ==
    LET p == cpool[c] IN
    /\ pc[c] = "holding"
    /\ kind[c] = "cm"
    /\ IF cm_instance # NoSlot
       THEN /\ pool' = [pool EXCEPT ![p] = QPut(@, cm_instance)]
            /\ waiters' = [waiters EXCEPT ![p] = PutWaiters(p)]
            /\ pc' = [x \in Callers |->
                        IF x = c THEN "idle"
                        ELSE IF x = PutWoken(p) /\ pc[x] = "wait" THEN "woken"
                        ELSE pc[x]]
       ELSE /\ pc' = [pc EXCEPT ![c] = "idle"]
            /\ UNCHANGED <<pool, waiters>>
    /\ held' = [held EXCEPT ![c] = NoSlot]
    /\ result' = [result EXCEPT ![c] =
                     IF pending[c] = "none" \/ AExitReturn THEN "ok" ELSE pending[c]]
    /\ pending' = [pending EXCEPT ![c] = "none"]
    /\ kind' = [kind EXCEPT ![c] = "none"]
    /\ cpool' = [cpool EXCEPT ![c] = NoPool]
    /\ UNCHANGED <<expired, wait_order>>
    /\ UNCHANGED <<cls_instance, made, pool_size, model_instances, model_path,
                   model, usage_count, lock, init_result>>
    /\ UNCHANGED <<routerVars, auxVars>>

\* the block of the caller raises an error of its own
BlockRaise(c) ==
    /\ pc[c] = "holding"
    /\ pending[c] = "none"
    /\ pending' = [pending EXCEPT ![c] = "BlockError"]
    /\ UNCHANGED <<pc, kind, cpool, expired, held, result, wait_order>>
    /\ UNCHANGED <<poolVars, routerVars, auxVars>>

\* ---------------------------------------------------------------- ModelInstance
\* ModelInstance.predict / predict_proba up to the backend call: take the
\* instance lock, count the use
PredictBegin(c) ==
    LET p == cpool[c]
        i == held[c] IN
    /\ pc[c] = "holding"
    /\ pending[c] = "none"
    /\ lock[p][i] = NoCaller
    /\ SumUsage(usage_count[p], model_instances[p]) < MaxUsage
    /\ lock' = [lock EXCEPT ![p][i] = c]
    /\ usage_count' = [usage_count EXCEPT ![p][i] = @ + 1]
    /\ pc' = [pc EXCEPT ![c] = "predicting"]
    /\ UNCHANGED <<kind, cpool, expired, held, pending, result, wait_order>>
    /\ UNCHANGED <<cls_instance, made, pool_size, pool, waiters, model_instances,
                   model_path, model, init_result>>
    /\ UNCHANGED <<routerVars, auxVars>>

\* with self.lock: the owner of the lock once the block is left, by return or
\* by error
WithLockExitOnReturn(c, ok) == IF ok THEN NoCaller ELSE c
WithLockExit(c, ok) == NoCaller

\* the backend call returns or raises (engine error, or no predict_proba on the
\* handle); the with statement frees the lock
PredictEnd(c, ok) ==
    LET p == cpool[c]
        i == held[c] IN
    /\ pc[c] = "predicting"
    /\ lock' = [lock EXCEPT ![p][i] = WithLockExit(c, ok)]
    /\ pc' = [pc EXCEPT ![c] = "holding"]
    /\ pending' = [pending EXCEPT ![c] = IF ok THEN @ ELSE "EngineError"]
    /\ returned' = [returned EXCEPT ![p][i] = IF ok THEN @ + 1 ELSE @]
    /\ UNCHANGED <<kind, cpool, expired, held, result, wait_order>>
    /\ UNCHANGED <<cls_instance, made, pool_size, pool, waiters, model_instances,
                   model_path, model, usage_count, init_result>>
    /\ UNCHANGED <<routerVars, orchestration, shutdown_log, extVars>>

\* round(.., 2) keeps two decimals: averages are kept in hundredths
AvgScale == 100

\* round(x, 2) of x = total / size, in hundredths: the nearest hundredth, a tie
\* going to the even one (for the sizes here a tie is a multiple of 1/8, which
\* the float holds exactly)
Round2Truncated(total, size) == (AvgScale * total) \div size
Round2(total, size) ==
    LET q == (AvgScale * total) \div size
        twice == 2 * ((AvgScale * total) % size) IN
    IF twice < size THEN q
    ELSE IF twice > size THEN q + 1
    ELSE IF q % 2 = 0 THEN q ELSE q + 1

\* avg_usage_per_instance of ModelPool.get_stats, in hundredths:
\* avg_usage = total_usage / pool_size if pool_size > 0 else 0, then round(.., 2)
avg_usage_per_instance(total_usage, size) ==
    IF size > 0 THEN Round2(total_usage, size) ELSE 0

\* get_stats on a pool of avg_call.size instances whose usage counts sum to
\* avg_call.total
GetStatsAverage ==
    /\ avg_call.avg = NoAverage
    /\ avg_call' = [avg_call EXCEPT
                       !.avg = avg_usage_per_instance(avg_call.total, avg_call.size)]
    /\ UNCHANGED <<orchestration, returned, shutdown_log, stats_log, init_thread,
                   cancelled, cm_instance>>
    /\ UNCHANGED <<poolVars, routerVars, callerVars>>

\* ---------------------------------------------------------------- initialize, step by step
\* ModelPool.initialize run by thread th, one step per access to the pool's
\* fields; nothing in initialize takes a lock.
\* the guard: if self._pool_size > 0, print and return
InitGuard(th, size) ==
    LET p == cls_instance IN
    /\ p # NoPool
    /\ init_thread[th].pc = "idle"
    /\ IF AlreadyInitialized(p)
       THEN /\ init_thread' = [init_thread EXCEPT ![th].pc = "skipped"]
            /\ init_result' = [init_result EXCEPT ![p] = "already"]
       ELSE /\ init_thread' = [init_thread EXCEPT ![th].pc = "passed",
                                                  ![th].size = size]
            /\ UNCHANGED init_result
    /\ UNCHANGED <<cls_instance, made, pool_size, pool, waiters, model_instances,
                   model_path, model, usage_count, lock>>
    /\ UNCHANGED <<orchestration, returned, shutdown_log, stats_log, avg_call,
                   cancelled, cm_instance>>
    /\ UNCHANGED <<routerVars, callerVars>>

\* self._pool_size = pool_size
InitSetSize(th) ==
    LET p == cls_instance IN
    /\ init_thread[th].pc = "passed"
    /\ pool_size' = [pool_size EXCEPT ![p] = init_thread[th].size]
    /\ init_thread' = [init_thread EXCEPT ![th].pc = "loading"]
    /\ UNCHANGED <<cls_instance, made, pool, waiters, model_instances, model_path,
                   model, usage_count, lock, init_result>>
    /\ UNCHANGED <<orchestration, returned, shutdown_log, stats_log, avg_call,
                   cancelled, cm_instance>>
    /\ UNCHANGED <<routerVars, callerVars>>

\* self._model_path = model_path and base_model = pickle.load(f), from a file
\* that exists and loads
InitLoad(th, path_arg) ==
    LET p == cls_instance
        path == ResolvePath(path_arg) IN
    /\ init_thread[th].pc = "loading"
    /\ PathExists(path)
    /\ PickleLoads(path)
    /\ model_path' = [model_path EXCEPT ![p] = path]
    /\ init_thread' = [init_thread EXCEPT ![th].pc = "populating", ![th].i = 0]
    /\ UNCHANGED <<cls_instance, made, pool_size, pool, waiters, model_instances,
                   model, usage_count, lock, init_result>>
    /\ UNCHANGED <<orchestration, returned, shutdown_log, stats_log, avg_call,
                   cancelled, cm_instance>>
    /\ UNCHANGED <<routerVars, callerVars>>

\* one turn of the population loop: ModelInstance(copy or base_model, i),
\* self._model_instances.append(instance), self._pool.put(instance); after the
\* last turn initialize prints its closing message and returns
InitPut(th, copied) ==
    LET p == cls_instance
        i == init_thread[th].i
        last == i + 1 = init_thread[th].size IN
    /\ init_thread[th].pc = "populating"
    /\ model_instances' = [model_instances EXCEPT ![p] = Append(@, i)]
    /\ pool' = [pool EXCEPT ![p] = QPut(@, i)]
    /\ waiters' = [waiters EXCEPT ![p] = PutWaiters(p)]
    /\ pc' = [x \in Callers |->
                IF x = PutWoken(p) /\ pc[x] = "wait" THEN "woken" ELSE pc[x]]
    /\ model' = [model EXCEPT ![p][i] = IF copied THEN ModelCopy(i) ELSE BaseHandle]
    /\ init_thread' = [init_thread EXCEPT ![th].i = i + 1,
                                          ![th].pc = IF last THEN "done" ELSE @]
    /\ init_result' = [init_result EXCEPT ![p] = IF last THEN "initialized" ELSE @]
    /\ UNCHANGED <<cls_instance, made, pool_size, model_path, usage_count, lock>>
    /\ UNCHANGED <<kind, cpool, expired, held, pending, result, wait_order>>
    /\ UNCHANGED <<orchestration, returned, shutdown_log, stats_log, avg_call,
                   cancelled, cm_instance>>
    /\ UNCHANGED routerVars

\* ---------------------------------------------------------------- ModelRouter
\* ModelRouter.register_pool: self._pools[model_type] = pool
register_poolEveryType(model_type, p) == [t \in ModelType |-> p]
register_pool(model_type, p) == [router_pools EXCEPT ![model_type] = p]

\* model_router.register_pool(t, pool) with the pool the startup made for t
RegisterPool(t) ==
    /\ made[t] # NoPool
    /\ router_pools' = register_pool(t, made[t])
    /\ UNCHANGED default_type
    /\ UNCHANGED <<poolVars, callerVars, auxVars>>

\* ModelRouter.set_default_type
set_default_typeUnchecked(t) == t
set_default_type(t) == IF router_pools[t] = NoPool THEN default_type ELSE t

SetDefaultType(t) ==
    /\ default_type' = set_default_type(t)
    /\ UNCHANGED router_pools
    /\ UNCHANGED <<poolVars, callerVars, auxVars>>

\* the backends that have a registered pool (self._pools.keys())
get_available_types == {t \in ModelType : router_pools[t] # NoPool}

\* how shutdown ends when get_stats raises for the backends in failed: the
\* try / except inside its loop logs the error and goes on
ShutdownEndUncaught(failed) == IF failed = {} THEN "ok" ELSE "Exception"
ShutdownEnd(failed) == "ok"

\* ModelRouter.shutdown: log get_stats of every registered pool, then clear the
\* registry. raising: the registered objects whose get_stats raises.
Shutdown(raising) ==
    LET registered == get_available_types
        failed == {t \in registered : router_pools[t] \in raising} IN
    /\ shutdown_log' = [ended |-> ShutdownEnd(failed),
                        stats |-> registered,
                        errors |-> failed]
    /\ router_pools' = IF ShutdownEnd(failed) = "ok"
                       THEN [t \in ModelType |-> NoPool]
                       ELSE router_pools
    /\ UNCHANGED <<default_type, orchestration, returned, extVars>>
    /\ UNCHANGED <<poolVars, callerVars>>

\* str(e) of the error a registered object's get_stats raises
PoolErrorText == "Pool error"

\* how ModelRouter.get_stats ends when get_stats raises for the backends in
\* failed: the try / except inside its loop stores an error entry and goes on
RouterStatsEndUncaught(failed) == IF failed = {} THEN "ok" ELSE "Exception"
RouterStatsEnd(failed) == "ok"

\* the dictionary ModelRouter.get_stats builds. raising: the backends whose
\* registered object raises in get_stats during this call.
router_get_stats(raising) ==
    [default_type |-> default_type,
     pools |-> [t \in get_available_types |->
                   IF t \in raising
                   THEN [error |-> PoolErrorText]
                   ELSE get_stats(router_pools[t])]]

\* a ModelRouter.get_stats call; stats_log keeps how it ended, the default tag
\* it reported and the tags of its snapshot entries and of its error entries
RouterGetStats(raising) ==
    LET failed == raising \cap get_available_types
        stats == router_get_stats(raising)
        ended == RouterStatsEnd(failed) IN
    /\ stats_log' =
           IF ended = "ok"
           THEN [ended |-> ended,
                 default_type |-> stats.default_type,
                 pools |-> {t \in DOMAIN stats.pools :
                               "error" \notin DOMAIN stats.pools[t]},
                 errors |-> {t \in DOMAIN stats.pools :
                               "error" \in DOMAIN stats.pools[t]}]
           ELSE [ended |-> ended, default_type |-> None, pools |-> {},
                 errors |-> {}]
    /\ UNCHANGED <<orchestration, returned, shutdown_log, avg_call, init_thread,
                   cancelled, cm_instance>>
    /\ UNCHANGED <<poolVars, routerVars, callerVars>>

\* ---------------------------------------------------------------- startup
\* the errors ModelPool.initialize raises
InitializeErrors == {"FileNotFoundError", "Exception"}

\* The startup of backend t, sklearn first: initialize the pool made for t; when
\* initialize returned, register the pool (PoolActive); when it raised, register
\* nothing and serve from the single shared handle (SingletonFallback).
Startup(t, size, path_arg, preloaded, copies) ==
    /\ made[t] # NoPool
    /\ orchestration[t] = "Uninitialized"
    /\ t = "onnx" => orchestration["sklearn"] # "Uninitialized"
    /\ InitializeCall(made[t], size, path_arg, preloaded, copies)
    /\ IF init_result'[made[t]] \in InitializeErrors
       THEN /\ orchestration' = [orchestration EXCEPT ![t] = "SingletonFallback"]
            /\ UNCHANGED router_pools
       ELSE /\ orchestration' = [orchestration EXCEPT ![t] = "PoolActive"]
            /\ router_pools' = register_pool(t, made[t])
    /\ UNCHANGED <<default_type, callerVars, returned, shutdown_log, extVars>>

\* what serves the requests of backend t, and the model_loaded field of the
\* readiness report
ServingHandle(t) ==
    IF orchestration[t] = "PoolActive" THEN "pool"
    ELSE IF orchestration[t] = "SingletonFallback" THEN "shared"
    ELSE "none"
model_loaded == \E t \in ModelType : ServingHandle(t) # "none"

\* ---------------------------------------------------------------- specifications
\* Spec: the pool under concurrent acquire, acquire_async and scoped callers
Next ==
    \/ Construct("sklearn")
    \/ InitializeFromPath
    \/ InitializePreloaded
    \/ \E c \in Callers, k \in Kinds, timeout0 \in BOOLEAN : Acquire(c, k, timeout0)
    \/ \E c \in Callers : WaitTimeout(c)
    \/ \E c \in Callers : Expire(c)
    \/ \E c \in Callers : Recheck(c)
    \/ \E c \in Callers : Resume(c)
    \/ \E c \in Callers : Release(c)
    \/ \E c \in Callers : AExit(c)

Spec == Init /\ [][Next]_vars

\* SpecScoped: scoped callers that predict and raise inside their blocks
NextScoped ==
    \/ Construct("sklearn")
    \/ InitializeFromPath
    \/ InitializePreloaded
    \/ \E c \in Scoped, timeout0 \in BOOLEAN : Acquire(c, "cm", timeout0)
    \/ \E c \in Scoped : WaitTimeout(c)
    \/ \E c \in Scoped : Expire(c)
    \/ \E c \in Scoped : Recheck(c)
    \/ \E c \in Scoped : Resume(c)
    \/ \E c \in Scoped : AExit(c)
    \/ \E c \in Scoped : BlockRaise(c)
    \/ \E c \in Scoped : PredictBegin(c)
    \/ \E c \in Scoped, ok \in BOOLEAN : PredictEnd(c, ok)

SpecScoped == Init /\ [][NextScoped]_vars

\* SpecRouter: the startup (one ModelPool() per backend, initialize, register)
\* and callers that go through the router
NextRouter ==
    \/ \E t \in ModelType : Construct(t)
    \/ InitializeFromPath
    \/ InitializePreloaded
    \/ \E t \in ModelType : RegisterPool(t)
    \/ \E t \in ModelType : SetDefaultType(t)
    \/ \E c \in Scoped, mt \in ModelType \cup {None}, timeout0 \in BOOLEAN :
           AcquireModel(c, mt, timeout0)
    \/ \E c \in Scoped : WaitTimeout(c)
    \/ \E c \in Scoped : Expire(c)
    \/ \E c \in Scoped : Recheck(c)
    \/ \E c \in Scoped : Resume(c)
    \/ \E c \in Scoped : AExit(c)

SpecRouter == Init /\ [][NextRouter]_vars

\* SpecShutdown: the router under register_pool, set_default_type and shutdown,
\* with one caller
NextShutdown ==
    \/ \E t \in ModelType : Construct(t)
    \/ InitializeFromPath
    \/ InitializePreloaded
    \/ \E t \in ModelType : RegisterPool(t)
    \/ \E t \in ModelType : SetDefaultType(t)
    \/ \E raising \in SUBSET PoolIds : Shutdown(raising)
    \/ \E mt \in ModelType \cup {None}, timeout0 \in BOOLEAN :
           AcquireModel(1, mt, timeout0)
    \/ Resume(1)
    \/ AExit(1)

SpecShutdown == Init /\ [][NextShutdown]_vars

\* SpecStats: the router under register_pool, set_default_type and get_stats,
\* with one caller
NextStats ==
    \/ \E t \in ModelType : Construct(t)
    \/ InitializeFromPath
    \/ InitializePreloaded
    \/ \E t \in ModelType : RegisterPool(t)
    \/ \E t \in ModelType : SetDefaultType(t)
    \/ \E raising \in SUBSET ModelType : RouterGetStats(raising)
    \/ \E mt \in ModelType \cup {None}, timeout0 \in BOOLEAN :
           AcquireModel(1, mt, timeout0)
    \/ Resume(1)
    \/ AExit(1)

SpecStats == Init /\ [][NextStats]_vars

\* SpecAvg: get_stats on pools of every size up to MaxAvgSize with every usage
\* total up to MaxAvgTotal
InitAvg ==
    /\ InitState
    /\ avg_call \in [size : 1..MaxAvgSize, total : 0..MaxAvgTotal, avg : {NoAverage}]

NextAvg == GetStatsAverage

SpecAvg == InitAvg /\ [][NextAvg]_vars

\* SpecMisuse: two callers that acquire and release, and that also release
\* instances they do not hold
NextMisuse ==
    \/ Construct("sklearn")
    \/ InitializeFromPath
    \/ InitializePreloaded
    \/ \E c \in Scoped, k \in Kinds, timeout0 \in BOOLEAN : Acquire(c, k, timeout0)
    \/ \E c \in Scoped : WaitTimeout(c)
    \/ \E c \in Scoped : Expire(c)
    \/ \E c \in Scoped : Recheck(c)
    \/ \E c \in Scoped : Resume(c)
    \/ \E c \in Scoped : Release(c)
    \/ \E c \in Scoped : AExit(c)
    \/ \E c \in Scoped, p \in PoolIds, i \in Slots : ReleaseNotHeld(c, p, i)

SpecMisuse == Init /\ [][NextMisuse]_vars

\* SpecInit: NumThreads threads that each call initialize once on the same pool,
\* and one caller that acquires and releases meanwhile
NextInit ==
    \/ Construct("sklearn")
    \/ \E th \in Threads, size \in Sizes : InitGuard(th, size)
    \/ \E th \in Threads : InitSetSize(th)
    \/ \E th \in Threads, path_arg \in PicklePaths \cup {None} : InitLoad(th, path_arg)
    \/ \E th \in Threads, copied \in BOOLEAN : InitPut(th, copied)
    \/ \E k \in Kinds, timeout0 \in BOOLEAN : Acquire(1, k, timeout0)
    \/ WaitTimeout(1)
    \/ Expire(1)
    \/ Recheck(1)
    \/ Resume(1)
    \/ Release(1)
    \/ AExit(1)

SpecInit == Init /\ [][NextInit]_vars

\* SpecCancel: two callers whose awaiting tasks can be cancelled
NextCancel ==
    \/ Construct("sklearn")
    \/ InitializeFromPath
    \/ InitializePreloaded
    \/ \E c \in Scoped, k \in Kinds, timeout0 \in BOOLEAN : Acquire(c, k, timeout0)
    \/ \E c \in Scoped : WaitTimeout(c)
    \/ \E c \in Scoped : Expire(c)
    \/ \E c \in Scoped : Recheck(c)
    \/ \E c \in Scoped : Resume(c)
    \/ \E c \in Scoped : Release(c)
    \/ \E c \in Scoped : AExit(c)
    \/ \E c \in Scoped : Cancel(c)
    \/ \E c \in Scoped : Discard(c)

SpecCancel == Init /\ [][NextCancel]_vars

\* SpecShared: callers that enter one and the same ModelContextManager object,
\* one after the other or while another caller's block runs
NextShared ==
    \/ Construct("sklearn")
    \/ InitializeFromPath
    \/ InitializePreloaded
    \/ \E c \in Callers, timeout0 \in BOOLEAN : Acquire(c, "cm", timeout0)
    \/ \E c \in Callers : WaitTimeout(c)
    \/ \E c \in Callers : Expire(c)
    \/ \E c \in Callers : Recheck(c)
    \/ \E c \in Callers : ResumeShared(c)
    \/ \E c \in Callers : AExitShared(c)

SpecShared == Init /\ [][NextShared]_vars

\* SpecLive: two callers under fair scheduling: a deadline passes in the end
\* (Condition.wait returns on its timeout), and a thread that was woken, or a
\* task whose future is done, runs in the end
NextLive ==
    \/ Construct("sklearn")
    \/ InitializeFromPath
    \/ InitializePreloaded
    \/ \E c \in Scoped, k \in Kinds, timeout0 \in BOOLEAN : Acquire(c, k, timeout0)
    \/ \E c \in Scoped : WaitTimeout(c)
    \/ \E c \in Scoped : Expire(c)
    \/ \E c \in Scoped : Recheck(c)
    \/ \E c \in Scoped : Resume(c)
    \/ \E c \in Scoped : Release(c)
    \/ \E c \in Scoped : AExit(c)

SpecLive ==
    /\ Init
    /\ [][NextLive]_vars
    /\ \A c \in Scoped : /\ WF_vars(WaitTimeout(c) \/ Expire(c))
                         /\ WF_vars(Recheck(c))
                         /\ WF_vars(Resume(c))

\* SpecStartup: the startup with its fallback policy, then callers that go
\* through the router
NextStartup ==
    \/ \E t \in ModelType : Construct(t)
    \/ \E t \in ModelType, size \in Sizes, preloaded \in BOOLEAN,
          path_arg \in PicklePaths \cup PreloadedPaths \cup {None} :
           \E copies \in [0..(size - 1) -> BOOLEAN] :
               Startup(t, size, path_arg, preloaded, copies)
    \/ \E c \in Scoped, mt \in ModelType \cup {None}, timeout0 \in BOOLEAN :
           AcquireModel(c, mt, timeout0)
    \/ \E c \in Scoped : WaitTimeout(c)
    \/ \E c \in Scoped : Expire(c)
    \/ \E c \in Scoped : Recheck(c)
    \/ \E c \in Scoped : Resume(c)
    \/ \E c \in Scoped : AExit(c)

SpecStartup == Init /\ [][NextStartup]_vars

\* ---------------------------------------------------------------- properties
\* an initialize call has populated pool p
Populated(p) == model_instances[p] # <<>>

\* the backend handle caller c works on
HandleOf(c) == <<cpool[c], model[cpool[c]][held[c]]>>

\* C1: once initialize has populated a pool, the instances held by callers plus
\* the free-list length equal pool_size, and get_stats reports in_use equal to
\* the number of instances held, with available + in_use = pool_size.
C1_SlotConservation ==
    \A p \in PoolIds :
        Populated(p) =>
            /\ HeldCount(p) + Len(pool[p]) = pool_size[p]
            /\ get_stats(p).in_use = HeldCount(p)
            /\ get_stats(p).available + get_stats(p).in_use = get_stats(p).pool_size

C1_Witness ==
    \E p \in PoolIds :
        /\ Populated(p)
        /\ pool_size[p] = 2
        /\ pool[p] = <<0>>
        /\ HeldCount(p) = 1
        /\ \E c \in Callers : pc[c] = "futdone" /\ held[c] = 1
        /\ \E c \in Callers : result[c] = "ok"

\* C2: a ModelContextManager scope takes its instance off the free-list once on
\* entry, keeps it out of the free-list while the block runs, and on exit, with
\* or without an error of the block, puts exactly that instance back once; the
\* error of the block is the error the caller gets.
C2_ScopedRelease ==
    [][\A c \in Callers :
          LET p == cpool[c]
              q == cpool'[c] IN
          /\ (held[c] = NoSlot /\ held'[c] # NoSlot /\ kind'[c] = "cm")
                => pool[q] = <<held'[c]>> \o pool'[q]
          /\ (kind[c] = "cm" /\ held[c] # NoSlot /\ kind'[c] = "cm")
                => /\ held'[c] = held[c]
                   /\ held[c] \notin Range(pool'[p])
          /\ (kind[c] = "cm" /\ pc[c] = "holding" /\ pc'[c] = "idle")
                => /\ pool'[p] = Append(pool[p], held[c])
                   /\ held'[c] = NoSlot
                   /\ result'[c] = IF pending[c] = "none" THEN "ok" ELSE pending[c]
      ]_vars

C2_Witness ==
    \E c \in Callers, p \in PoolIds :
        /\ pc[c] = "idle"
        /\ result[c] \in {"BlockError", "EngineError"}
        /\ Populated(p)
        /\ Len(pool[p]) = pool_size[p]

\* C3: a call whose deadline has passed on a pool with an empty free-list ends
\* with TimeoutError (for acquire_async and ModelContextManager: Empty in the
\* future, TimeoutError when the task resumes); the step that fails the call
\* changes neither the free-list nor what any caller holds, and a scope whose
\* entry failed releases nothing.
C3_ExhaustedTimeout ==
    [][\A c \in Callers :
          /\ (pc[c] = "woken" /\ pc'[c] # "woken" /\ expired[c]
                 /\ pool[cpool[c]] = <<>>)
                => /\ pool' = pool
                   /\ held' = held
                   /\ IF kind[c] = "sync"
                      THEN pc'[c] = "idle" /\ result'[c] = "TimeoutError"
                      ELSE pc'[c] = "futdone" /\ held'[c] = NoSlot
          /\ (pc[c] = "futdone" /\ held[c] = NoSlot /\ pc'[c] # "futdone")
                => /\ pool' = pool
                   /\ held' = held
                   /\ pc'[c] = "idle"
                   /\ result'[c] = "TimeoutError"
          /\ (result'[c] = "TimeoutError" /\ result[c] # "TimeoutError")
                => /\ pool' = pool
                   /\ held' = held
                   /\ held[c] = NoSlot
      ]_vars

C3_Witness ==
    \E c \in Callers, p \in PoolIds :
        /\ pc[c] = "idle"
        /\ result[c] = "TimeoutError"
        /\ Populated(p)
        /\ pool[p] = <<>>
        /\ HeldCount(p) = pool_size[p]
        /\ \E d \in Callers : kind[d] = "cm" /\ pc[d] = "holding"

\* C4 (as claimed): a call whose deadline has passed is never given an instance.
C4_NoGrantAfterExpiry ==
    [][\A c \in Callers : expired[c] => held'[c] = NoSlot]_vars

\* C5 (as claimed): a caller is given an instance only if no other caller that
\* began waiting earlier, or that is waiting while this caller never waited, is
\* still waiting within its deadline.
Position(c) == CHOOSE k \in 1..Len(wait_order) : wait_order[k] = c

C5_FifoGrant ==
    [][\A c \in Callers :
          (held[c] = NoSlot /\ held'[c] # NoSlot)
              => \A a \in Range(wait_order) \ {c} :
                    \/ expired[a]
                    \/ cpool[a] # cpool'[c]
                    \/ (c \in Range(wait_order) /\ Position(c) < Position(a))
      ]_vars

\* C6 (as claimed): after an initialize call that raised, is_initialized is false.
C6_FailedInitializeNotInitialized ==
    \A p \in PoolIds :
        init_result[p] \in {"FileNotFoundError", "Exception"} => ~is_initialized(p)

\* C7 (as claimed): on a pool that no initialize call has populated, no acquire
\* waits and none ends with TimeoutError.
C7_NotInitializedFailsAtOnce ==
    /\ \A c \in Callers : pc[c] \in {"wait", "woken", "futdone"} => Populated(cpool[c])
    /\ (\E c \in Callers : result[c] = "TimeoutError")
           => \E p \in PoolIds : Populated(p)

\* C8: an initialize call on a pool whose pool_size is already set ends without
\* error as "already initialized" and leaves pool_size, the instance list, the
\* free-list, the handles and model_path as they were.
C8_InitializeIdempotent ==
    [][\A p \in PoolIds :
          (is_initialized(p) /\ init_result'[p] # init_result[p])
              => /\ init_result'[p] = "already"
                 /\ pool_size'[p] = pool_size[p]
                 /\ model_instances'[p] = model_instances[p]
                 /\ pool'[p] = pool[p]
                 /\ model'[p] = model[p]
                 /\ model_path'[p] = model_path[p]
      ]_vars

C8_Witness ==
    \E p \in PoolIds :
        /\ init_result[p] = "already"
        /\ Populated(p)
        /\ HeldCount(p) > 0
        /\ Len(pool[p]) > 0

C10_IndependentPools ==
    \A t1, t2 \in ModelType :
        (t1 # t2 /\ is_available(t1) /\ is_available(t2))
            => router_pools[t1] # router_pools[t2]

\* C11: model_router.acquire_model(model_type, timeout) resolves model_type, or
\* the default type when it is None; when no pool is registered under the resolved
\* type the call ends with ValueError and the caller is bound to no pool and
\* takes no instance; otherwise the scope is bound to exactly the pool registered
\* under the resolved type and carries the given timeout: on an empty free-list
\* a zero timeout fails without waiting and a positive one waits.
C11_RoutedBinding ==
    [][\A c \in Callers, mt \in ModelType \cup {None}, timeout0 \in BOOLEAN :
          AcquireModel(c, mt, timeout0) =>
              LET t == IF mt = None THEN default_type ELSE mt
                  p == router_pools[t] IN
              IF p = NoPool
              THEN /\ result'[c] = "ValueError"
                   /\ cpool'[c] = NoPool
                   /\ held'[c] = NoSlot
                   /\ pool' = pool
              ELSE /\ result'[c] # "ValueError"
                   /\ cpool'[c] \in {p, NoPool}
                   /\ cpool'[c] = NoPool => result'[c] = "RuntimeError"
                   /\ held'[c] # NoSlot => pool[p] = <<held'[c]>> \o pool'[p]
                   /\ (pool_size[p] > 0 /\ pool[p] = <<>>)
                         => pc'[c] = IF timeout0 THEN "futdone" ELSE "wait"
      ]_vars

C11_Witness ==
    \E c1, c2 \in Callers :
        /\ result[c1] = "ValueError"
        /\ pc[c2] = "holding"
        /\ kind[c2] = "cm"
        /\ is_available("onnx")
        /\ ~is_available("sklearn")
        /\ default_type = "sklearn"
        /\ cpool[c2] = router_pools["onnx"]

Predicting(p) == {c \in Callers : cpool[c] = p /\ pc[c] = "predicting"}

\* C13 (as claimed): while no call is inside predict, get_stats of a populated
\* pool reports as total_predictions the number of predict / predict_proba
\* calls that returned, summed over the slots.
C13_StatsTotal ==
    \A p \in PoolIds :
        (Populated(p) /\ Predicting(p) = {})
            => get_stats(p).total_predictions = SumUsage(returned[p], model_instances[p])

\* C14 (as claimed): the usage_count of an instance is the number of calls on it
\* that returned, plus the call now inside predict if there is one; a call that
\* failed is not counted.
C14_CountsReturnedCalls ==
    \A p \in PoolIds, i \in Slots :
        usage_count[p][i] =
            returned[p][i] + (IF lock[p][i] # NoCaller THEN 1 ELSE 0)

\* C15: a predict / predict_proba call that fails leaves the instance lock free
\* and the caller with the same instance and handle; the scope of a caller whose
\* call failed puts the instance back on the free-list and hands the error to
\* the caller; a lock is only ever owned by a caller that is inside predict on
\* the instance it holds, so whoever holds an instance outside predict, after a
\* failed call on it or not, finds its lock free and can call predict.
C15_FailedCallLeavesSlotUsable ==
    [][\A c \in Callers :
          LET p == cpool[c]
              i == held[c] IN
          /\ (pc[c] = "predicting" /\ pc'[c] = "holding" /\ pending'[c] = "EngineError")
                => /\ lock'[p][i] = NoCaller
                   /\ held'[c] = i
                   /\ cpool'[c] = p
                   /\ model'[p][i] = model[p][i]
          /\ (pc[c] = "holding" /\ kind[c] = "cm" /\ pending[c] = "EngineError"
                 /\ pc'[c] = "idle")
                => /\ pool'[p] = Append(pool[p], i)
                   /\ lock'[p][i] = NoCaller
                   /\ result'[c] = "EngineError"
          /\ pc'[c] = "holding" => lock'[cpool'[c]][held'[c]] = NoCaller
          /\ \A q \in PoolIds, j \in Slots :
                lock'[q][j] = c
                    => pc'[c] = "predicting" /\ cpool'[c] = q /\ held'[c] = j
      ]_vars

C15_Witness ==
    \E c1, c2 \in Callers, p \in PoolIds :
        /\ c1 # c2
        /\ pool_size[p] = 1
        /\ pc[c1] = "idle"
        /\ result[c1] = "EngineError"
        /\ pc[c2] = "predicting"
        /\ cpool[c2] = p
        /\ lock[p][held[c2]] = c2
        /\ usage_count[p][held[c2]] = 2
        /\ returned[p][held[c2]] = 0

\* how the call of caller c stands after a step: waiting, or ended with an
\* instance or an error (for acquire_async and ModelContextManager the outcome
\* the finished future holds is the outcome the awaiting task gets)
OutcomeNext(c) ==
    IF pc'[c] \in {"wait", "woken"} THEN "waiting"
    ELSE IF pc'[c] = "futdone"
    THEN (IF held'[c] # NoSlot THEN "instance" ELSE "TimeoutError")
    ELSE result'[c]

\* one pass of a call of caller c on pool p with deadline state exp, stated
\* without regard to the kind of the call
PassEffect(c, p, exp) ==
    IF pool_size[p] = 0
    THEN /\ OutcomeNext(c) = "RuntimeError"
         /\ pool' = pool /\ waiters' = waiters /\ held' = held
    ELSE IF pool[p] # <<>>
    THEN /\ OutcomeNext(c) = "instance"
         /\ held'[c] = Head(pool[p])
         /\ pool'[p] = Tail(pool[p])
         /\ waiters'[p] = Without(waiters[p], c)
    ELSE IF exp
    THEN /\ OutcomeNext(c) = "TimeoutError"
         /\ held'[c] = NoSlot
         /\ pool' = pool
         /\ waiters'[p] = Without(waiters[p], c)
    ELSE /\ OutcomeNext(c) = "waiting"
         /\ held'[c] = NoSlot
         /\ pool' = pool
         /\ waiters'[p] = Append(Without(waiters[p], c), c)

\* C16: acquire, acquire_async and the ModelContextManager entry are the same
\* operation on the pool: every pass of a call, the first one and each one after
\* a wait, has the same outcome for the call (instance, TimeoutError,
\* RuntimeError or waiting) and the same effect on the free-list, on the waiter
\* list that decides the grant order and so on get_stats, whatever the kind of
\* the call; the resumption of the awaiting task delivers the outcome of the
\* future and changes neither the pool nor get_stats.
C16_AsyncEquivalent ==
    [][\A c \in Callers :
          /\ \A k \in Kinds, timeout0 \in BOOLEAN :
                Acquire(c, k, timeout0) => PassEffect(c, cls_instance, timeout0)
          /\ Recheck(c) => PassEffect(c, cpool[c], expired[c])
          /\ Resume(c)
                => /\ result'[c] = IF held[c] # NoSlot THEN "instance" ELSE "TimeoutError"
                   /\ held' = held
                   /\ \A p \in PoolIds : get_stats(p)' = get_stats(p)
                   /\ waiters' = waiters
      ]_vars

C16_Witness ==
    \E c1, c2, c3 \in Callers, p \in PoolIds :
        /\ pc[c1] = "wait" /\ kind[c1] = "sync" /\ cpool[c1] = p
        /\ pc[c2] = "wait" /\ kind[c2] = "async" /\ cpool[c2] = p
        /\ waiters[p] = <<c1, c2>>
        /\ pc[c3] = "holding" /\ cpool[c3] = p
        /\ get_stats(p).available = 0

\* C17 (as claimed): once a release has woken a call suspended in acquire_async
\* (or in the ModelContextManager entry) that is within its deadline, the
\* instance put back on the exhausted pool goes to that call: no acquire_async
\* of another task takes it first.
C17_SuspendedTaskGranted ==
    [][\A c \in Callers :
          (/\ kind[c] \in {"async", "cm"}
           /\ pc[c] = "woken"
           /\ ~expired[c]
           /\ c \notin Range(waiters[cpool[c]])
           /\ Len(pool[cpool[c]]) = 1)
              => \A e \in Callers \ {c} :
                    ~(/\ held[e] = NoSlot
                      /\ held'[e] # NoSlot
                      /\ pc'[e] = "futdone"
                      /\ cpool'[e] = cpool[c])
      ]_vars

\* C18: set_default_type with a type that has no registered pool changes
\* nothing and raises nothing; with a registered type it makes that type the
\* default and changes nothing else, neither the registry nor any pool or caller.
C18_SetDefaultFrame ==
    [][\A t \in ModelType :
          SetDefaultType(t)
              => /\ default_type' = IF is_available(t) THEN t ELSE default_type
                 /\ router_pools' = router_pools
                 /\ UNCHANGED <<poolVars, callerVars, auxVars>>
      ]_vars

C18_Witness ==
    /\ default_type = "onnx"
    /\ is_available("onnx")
    /\ ~is_available("sklearn")

\* C19 (as claimed): whenever some pool is registered, the default type has a
\* registered pool.
C19_DefaultRegistered ==
    get_available_types # {} => is_available(default_type)

\* C20: a shutdown call ends without error whichever pools raise in get_stats;
\* it asks every registered pool for get_stats, and afterwards no type is
\* available and get_pool finds no pool for any type or for the default, so
\* acquire_model ends with ValueError; it touches no pool and no caller; on an
\* empty registry it leaves the registry as it is.
C20_ShutdownCompletes ==
    [][\A raising \in SUBSET PoolIds :
          Shutdown(raising)
              => /\ shutdown_log'.ended = "ok"
                 /\ shutdown_log'.stats = get_available_types
                 /\ \A t \in ModelType : ~is_available(t)'
                 /\ \A mt \in ModelType \cup {None} : get_pool(mt)' = NoPool
                 /\ get_available_types = {} => router_pools' = router_pools
                 /\ UNCHANGED <<default_type, poolVars, callerVars>>
      ]_vars

C20_Witness ==
    /\ shutdown_log.ended = "ok"
    /\ shutdown_log.stats = ModelType
    /\ shutdown_log.errors # {}
    /\ get_available_types = {}
    /\ \E c \in Callers : pc[c] = "idle" /\ result[c] = "ValueError"
\* ---------------------------------------------------------------- C21
\* C21: ModelRouter.get_stats isolates failures. Whatever registered pools raise
\* in get_stats, the call returns: it reports the default tag, one entry per
\* registered tag, an error entry carrying the error text for each pool that
\* raised, and the pool's own snapshot for every other registered pool.
C21_StatsIsolation ==
    [][\A raising \in SUBSET ModelType :
          RouterGetStats(raising) =>
              LET stats == router_get_stats(raising) IN
              /\ stats_log'.ended = "ok"
              /\ stats_log'.default_type = default_type
              /\ stats.default_type = default_type
              /\ DOMAIN stats.pools = get_available_types
              /\ stats_log'.errors = raising \cap get_available_types
              /\ stats_log'.pools = get_available_types \ raising
              /\ \A t \in get_available_types :
                     IF t \in raising
                     THEN stats.pools[t] = [error |-> PoolErrorText]
                     ELSE stats.pools[t] = get_stats(router_pools[t])]_vars

\* a get_stats call returned an error entry for one registered pool and the
\* snapshot of another
C21_Witness ==
    /\ stats_log.ended = "ok"
    /\ stats_log.errors # {}
    /\ stats_log.pools # {}

\* ---------------------------------------------------------------- C22
\* C22 as stated: get_stats reports avg_usage_per_instance equal to k / size
\* exactly (the average is kept in hundredths: 100 * k = avg * size).
C22_ExactAverage ==
    avg_call.avg # NoAverage => avg_call.avg * avg_call.size = AvgScale * avg_call.total

\* C22 amended: avg_usage_per_instance is total_predictions / pool_size rounded
\* to two decimals: a multiple of 0.01 at most 0.005 away from the quotient (the
\* even one when two are equally near), hence the quotient itself whenever the
\* quotient has at most two decimals.
C22_RoundedAverage ==
    avg_call.avg # NoAverage =>
        LET diff == AvgScale * avg_call.total - avg_call.avg * avg_call.size
            dist == IF diff < 0 THEN -diff ELSE diff IN
        /\ 2 * dist <= avg_call.size
        /\ 2 * dist = avg_call.size => avg_call.avg % 2 = 0
        /\ (AvgScale * avg_call.total) % avg_call.size = 0 => diff = 0

\* get_stats reported 0.67 for two predictions on three instances
C22_Witness ==
    /\ avg_call.size = 3
    /\ avg_call.total = 2
    /\ avg_call.avg = 67

\* ---------------------------------------------------------------- C23
\* C23: replication is all-or-nothing per pool. After initialize has populated a
\* pool, either every slot wraps its own private copy (none wraps the base handle
\* and no two slots share a handle) or every slot wraps the same base handle.
C23_AllOrNothing ==
    \A p \in PoolIds :
        Populated(p) =>
            LET ids == Range(model_instances[p]) IN
            \/ /\ \A i \in ids : model[p][i] # BaseHandle
               /\ \A i, j \in ids : i # j => model[p][i] # model[p][j]
            \/ \A i \in ids : model[p][i] = BaseHandle

\* ---------------------------------------------------------------- C24
\* C24: exclusive slot ownership. With every acquired instance released once by
\* its holder, no instance of a pool is held by two callers, none is both held
\* and in the free-list, none is in the free-list twice, and the instances of a
\* populated pool carry the ids 0 .. pool_size - 1, each once.
C24_ExclusiveOwnership ==
    \A p \in PoolIds :
        /\ \A c1, c2 \in Holders(p) : held[c1] = held[c2] => c1 = c2
        /\ \A c \in Holders(p) : held[c] \notin Range(pool[p])
        /\ \A m, n \in 1..Len(pool[p]) : pool[p][m] = pool[p][n] => m = n
        /\ Range(pool[p]) \subseteq Range(model_instances[p])
        /\ \A c \in Holders(p) : held[c] \in Range(model_instances[p])
        /\ Populated(p) => model_instances[p] = RangeSeq(pool_size[p])

\* both instances of a pool are held while the caller that has acquired and
\* released one of them is done: that instance was acquired again after its
\* release
C24_Witness ==
    \E p \in PoolIds, c1, c2, c3 \in Callers :
        /\ pool_size[p] = 2
        /\ cpool[c1] = p /\ held[c1] = 0 /\ pc[c1] = "holding"
        /\ cpool[c2] = p /\ held[c2] = 1 /\ pc[c2] = "holding"
        /\ result[c3] = "ok" /\ pc[c3] = "idle"
        /\ pool[p] = <<>>

\* ---------------------------------------------------------------- C25
\* C25: release is guarded against misuse. A release of an instance that is not
\* acquired at the time does not grow the free-list: get_stats always reports
\* 0 <= available <= pool_size and 0 <= in_use <= pool_size, and no instance is
\* held by two callers.
C25_ReleaseGuarded ==
    \A p \in PoolIds :
        /\ get_stats(p).available >= 0
        /\ get_stats(p).available <= get_stats(p).pool_size
        /\ get_stats(p).in_use >= 0
        /\ get_stats(p).in_use <= get_stats(p).pool_size
        /\ \A c1, c2 \in Holders(p) : held[c1] = held[c2] => c1 = c2

\* ---------------------------------------------------------------- C26
\* C26: a failed initialize leaves the pool as it was before the call. After an
\* initialize call that raised, pool_size is 0, the free-list and the instance
\* list are empty and get_stats reports in_use = 0; and no initialize call is
\* skipped as already initialized on a pool that none has populated.
C26_FailedInitializeRestores ==
    \A p \in PoolIds :
        /\ init_result[p] \in InitializeErrors =>
               /\ pool_size[p] = 0
               /\ pool[p] = <<>>
               /\ model_instances[p] = <<>>
               /\ get_stats(p).in_use = 0
        /\ init_result[p] = "already" => Populated(p)

\* ---------------------------------------------------------------- C27
\* the threads whose initialize call went past the guard, and those that have
\* loaded the base handle
InitEntered == {th \in Threads : init_thread[th].pc \in
                    {"passed", "loading", "populating", "done"}}
InitLoaded == {th \in Threads : init_thread[th].pc \in {"populating", "done"}}
InitRunning == {th \in Threads : init_thread[th].pc \in
                    {"passed", "loading", "populating"}}

\* C27: concurrent initialize is safe. Of the threads that call initialize on an
\* uninitialized pool at most one goes past the guard and loads the base handle;
\* when no call is running, the free-list and the instances held, the instance
\* list and pool_size all agree; and get_stats never reports in_use > 0 while no
\* caller holds an instance.
C27_ConcurrentInitialize ==
    LET p == cls_instance IN
    p # NoPool =>
        /\ Cardinality(InitEntered) <= 1
        /\ Cardinality(InitLoaded) <= 1
        /\ InitRunning = {} =>
               /\ Len(model_instances[p]) = pool_size[p]
               /\ Len(pool[p]) + HeldCount(p) = pool_size[p]
        /\ get_stats(p).in_use > 0 => HeldCount(p) > 0

\* ---------------------------------------------------------------- C28
\* C28: a cancelled suspending acquisition leaks no slot. Once every caller has
\* released what it holds and no acquisition is in progress, every instance of a
\* populated pool is back in the free-list: available = pool_size.
C28_NoLeakOnCancel ==
    \A p \in PoolIds :
        (Populated(p) /\ \A c \in Callers : pc[c] = "idle")
            => get_stats(p).available = pool_size[p]

\* ---------------------------------------------------------------- C29
\* C29: a ModelContextManager object entered more than once. Each exit puts back
\* exactly the instance that the matching entry acquired, so no instance is in
\* the free-list twice or in the free-list while a caller holds it.
C29_SharedScopeRelease ==
    [][\A c \in Callers :
          AExitShared(c) =>
              /\ pool'[cpool[c]] = Append(pool[cpool[c]], held[c])
              /\ \A m, n \in 1..Len(pool'[cpool[c]]) :
                     pool'[cpool[c]][m] = pool'[cpool[c]][n] => m = n
              /\ \A x \in Callers \ {c} :
                     held[x] # NoSlot => held[x] \notin Range(pool'[cpool[c]])
      ]_vars

\* ---------------------------------------------------------------- C30
\* caller c has a get in progress that waits within its deadline
WaitingUnexpired(c) == pc[c] \in {"wait", "woken"} /\ ~expired[c]

\* C30 (as claimed): an instance released while a call waits within its deadline
\* is granted to a waiting call: no call that has not waited takes an instance of
\* a pool on which another call waits within its deadline.
C30_ReleasedToWaiter ==
    [][\A c \in Callers :
          (/\ held[c] = NoSlot
           /\ held'[c] # NoSlot
           /\ \E a \in Callers \ {c} : WaitingUnexpired(a) /\ cpool[a] = cpool'[c])
              => pc[c] \in {"wait", "woken"}
      ]_vars

\* the other two parts of C30, under fair scheduling: an instance does not stay
\* in the free-list while a call keeps waiting within its deadline, and every
\* acquisition ends, with an instance or with TimeoutError
C30_NoStrandedInstance ==
    \A c \in Scoped :
        (WaitingUnexpired(c) /\ pool[cpool[c]] # <<>>)
            ~> ~(WaitingUnexpired(c) /\ pool[cpool[c]] # <<>>)

C30_EveryCallEnds ==
    \A c \in Scoped :
        (pc[c] \in {"wait", "woken", "futdone"}) ~> (pc[c] \in {"idle", "holding"})

====
